---- MODULE Spec2Model ----
(***************************************************************************)
(* Model of wasm/ibxwasm/src/lib.rs: the Wordle feedback classifier        *)
(* (feedback_trits_core), the base-3 encoder (base3_code_u16) and the two  *)
(* exported entry points (feedback_code, pattern_row_u16).                 *)
(*                                                                         *)
(* Words are sequences of byte values.  Rust indices are 0-based; the      *)
(* model keeps the 0-based loop index i and reads element i as seq[i+1].   *)
(***************************************************************************)
EXTENDS Integers, Sequences, FiniteSets, TLC

VARIABLES op, guess, secret, secrets, pc, i, result, counts,
          trits, code, mul, out, ret

vars == <<op, guess, secret, secrets, pc, i, result, counts,
          trits, code, mul, out, ret>>

----------------------------------------------------------------------------
(* Program constants *)

\* [0i16; 26]: size of the letter-count table
NumLetters == 26
\* (c as i16) - 97: the byte 'a'
ByteA == 97
\* assert!(g.len() <= 10, ...): longest supported word
MaxL == 10

\* range of u16, the type of the returned code
U16 == 65536

(* Bounds of the model *)

\* longest word over Alphabet enumerated for the classifier
MaxLen == 3
\* longest short word enumerated for the entry points
MaxApiLen == 1
\* longest list of secrets handed to pattern_row_u16
MaxSecrets == 3

----------------------------------------------------------------------------
(* Inputs *)

\* 'a', 'b' and '{' (the byte right after 'z')
Alphabet == {97, 98, 123}
ApiAlphabet == {97, 98}

SeqsUpTo(S, n) == UNION {[1..k -> S] : k \in 0..n}

civic == <<99, 105, 118, 105, 99>>
cigar == <<99, 105, 103, 97, 114>>
allee == <<97, 108, 108, 101, 101>>
eagle == <<101, 97, 103, 108, 101>>
aabb == <<97, 97, 98, 98>>
abab == <<97, 98, 97, 98>>
\* words with the bytes next to the letter range: '`' (96), 'z' (122), '{' (123)
edgeLo == <<96, 122, 96>>
edgeHi == <<122, 96, 123>>
long10a == <<97, 98, 97, 98, 97, 98, 97, 98, 97, 98>>
long10b == <<98, 98, 97, 97, 98, 97, 97, 97, 98, 98>>
long11 == <<97, 98, 97, 98, 97, 98, 97, 98, 97, 98, 97>>

TestWords == {civic, cigar, allee, eagle, aabb, abab, edgeLo, edgeHi}
CoreWords == SeqsUpTo(Alphabet, MaxLen) \cup TestWords

\* a JS value that is not a string (v.as_string() is None)
NotAString == <<-1>>
ApiWords ==
  SeqsUpTo(ApiAlphabet, MaxApiLen) \cup {<<97, 98>>, <<98, 97>>, long10a, long10b, long11}
ApiValues == ApiWords \cup {NotAString}

----------------------------------------------------------------------------
(* feedback_trits_core *)

\* the first l entries of `[0u8; 64]`; l <= MaxL, and the entries from l on are
\* never written, and cut off by every caller (&trits[..l])
ZeroBuf(l) == [k \in 1..l |-> 0]
ZeroCounts == [k \in 0..(NumLetters - 1) |-> 0]

\* (0..26).contains(&idx)
InRange(idx) == idx >= 0 /\ idx < NumLetters

\* CountStep with the index reduced modulo 26 instead of range-checked
CountStepWrap(cnt, c) ==
  LET idx == (c - ByteA) % NumLetters
  IN  [cnt EXCEPT ![idx] = @ + 1]

\* body of `for &c in secret`
CountStep(cnt, c) ==
  LET idx == c - ByteA
  IN  IF InRange(idx) THEN [cnt EXCEPT ![idx] = @ + 1] ELSE cnt

\* GreenStep without `counts[idx as usize] -= 1`
GreenStepNoDecrement(res, cnt, g, s, k) ==
  IF g[k + 1] = s[k + 1]
  THEN [result |-> [res EXCEPT ![k + 1] = 2], counts |-> cnt]
  ELSE [result |-> res, counts |-> cnt]

\* GreenStep with the range check put around the whole branch
GreenStepLettersOnly(res, cnt, g, s, k) ==
  LET idx == g[k + 1] - ByteA
  IN  IF g[k + 1] = s[k + 1] /\ InRange(idx)
      THEN [result |-> [res EXCEPT ![k + 1] = 2],
            counts |-> [cnt EXCEPT ![idx] = @ - 1]]
      ELSE [result |-> res, counts |-> cnt]

\* body of the greens loop at index k
GreenStep(res, cnt, g, s, k) ==
  IF g[k + 1] = s[k + 1]
  THEN LET idx == g[k + 1] - ByteA
       IN  [result |-> [res EXCEPT ![k + 1] = 2],
            counts |-> IF InRange(idx) THEN [cnt EXCEPT ![idx] = @ - 1] ELSE cnt]
  ELSE [result |-> res, counts |-> cnt]

\* Available with >= in place of >
AvailableNonNeg(cnt, idx) == cnt[idx] >= 0

\* counts[idx as usize] > 0
Available(cnt, idx) == cnt[idx] > 0

\* YellowStep without `counts[idx as usize] -= 1`
YellowStepNoDecrement(res, cnt, g, k) ==
  IF res[k + 1] = 0
  THEN LET idx == g[k + 1] - ByteA
       IN  IF InRange(idx) /\ cnt[idx] > 0
           THEN [result |-> [res EXCEPT ![k + 1] = 1], counts |-> cnt]
           ELSE [result |-> [res EXCEPT ![k + 1] = 0], counts |-> cnt]
  ELSE [result |-> res, counts |-> cnt]

\* body of the yellows / grays loop at index k
YellowStep(res, cnt, g, k) ==
  IF res[k + 1] = 0
  THEN LET idx == g[k + 1] - ByteA
       IN  IF InRange(idx) /\ Available(cnt, idx)
           THEN [result |-> [res EXCEPT ![k + 1] = 1],
                 counts |-> [cnt EXCEPT ![idx] = @ - 1]]
           ELSE [result |-> [res EXCEPT ![k + 1] = 0], counts |-> cnt]
  ELSE [result |-> res, counts |-> cnt]

RECURSIVE CountFrom(_, _, _)
CountFrom(cnt, s, k) ==
  IF k >= Len(s) THEN cnt ELSE CountFrom(CountStep(cnt, s[k + 1]), s, k + 1)

RECURSIVE GreensFrom(_, _, _, _)
GreensFrom(st, g, s, k) ==
  IF k >= Len(g) THEN st
  ELSE GreensFrom(GreenStep(st.result, st.counts, g, s, k), g, s, k + 1)

RECURSIVE YellowsFrom(_, _, _)
YellowsFrom(st, g, k) ==
  IF k >= Len(g) THEN st
  ELSE YellowsFrom(YellowStep(st.result, st.counts, g, k), g, k + 1)

feedback_trits_core(g, s) ==
  YellowsFrom(GreensFrom([result |-> ZeroBuf(Len(g)), counts |-> CountFrom(ZeroCounts, s, 0)],
                         g, s, 0), g, 0).result

----------------------------------------------------------------------------
(* base3_code_u16 *)

\* Base3Step with `mul *= 3` ahead of `code += ...`
Base3StepMulFirst(cd, ml, t) ==
  [code |-> cd + t * (ml * 3), mul |-> ml * 3]

\* body of `for &t in trits`.  code and mul are u32; for the slices of at
\* most MaxL trits the entry points pass, both stay far below 2^31 (Fits16
\* below bounds them), so the u32 additions and multiplications never wrap.
Base3Step(cd, ml, t) ==
  [code |-> cd + t * ml, mul |-> ml * 3]

\* AsU16 with a cast to u8
AsU8(cd) == cd % 256

\* code as u16
AsU16(cd) == cd % U16

RECURSIVE Base3From(_, _, _)
Base3From(st, ts, k) ==
  IF k >= Len(ts) THEN st
  ELSE Base3From(Base3Step(st.code, st.mul, ts[k + 1]), ts, k + 1)

base3_code_u16(ts) == AsU16(Base3From([code |-> 0, mul |-> 1], ts, 0).code)

----------------------------------------------------------------------------
(* Results of a call: a value, or a panic (failed assertion) *)

NoRet == [status |-> "none"]
Panic(msg) == [status |-> "panic", msg |-> msg]
Ok(v) == [status |-> "ok", value |-> v]

\* &trits[..l]
Slice(buf, l) == [k \in 1..l |-> buf[k]]

feedback_code(g, s) ==
  IF Len(g) # Len(s) THEN Panic("length mismatch")
  ELSE IF ~(Len(g) <= MaxL) THEN Panic("feedback_code supports L<=10")
  ELSE Ok(base3_code_u16(Slice(feedback_trits_core(g, s), Len(g))))

\* RowPrecheck without `assert!(l > 0, ...)`
RowPrecheckNoEmpty(g) ==
  IF ~(Len(g) <= MaxL) THEN "pattern_row_u16 supports L<=10" ELSE "ok"

\* the assertions of pattern_row_u16 on the guess: the message of the one
\* that fails, or "ok"
RowPrecheck(g) ==
  IF ~(Len(g) > 0) THEN "empty guess"
  ELSE IF ~(Len(g) <= MaxL) THEN "pattern_row_u16 supports L<=10"
  ELSE "ok"

\* RowCheck with `sb.len() >= l` in the assertion
RowCheckAtLeast(g, v) ==
  IF v = NotAString THEN "secret must be string"
  ELSE IF ~(Len(v) >= Len(g)) THEN "secret length mismatch"
  ELSE "ok"

\* v.as_string().expect(...) and assert!(sb.len() == l, ...) on one element:
\* the message of the one that fails, or "ok"
RowCheck(g, v) ==
  IF v = NotAString THEN "secret must be string"
  ELSE IF ~(Len(v) = Len(g)) THEN "secret length mismatch"
  ELSE "ok"

\* RowBody with `out.push(...)` in place of `out[i] = ...`
RowBodyPush(o, k, g, sb) ==
  Append(o, base3_code_u16(Slice(feedback_trits_core(g, sb), Len(g))))

\* body of `for (i, v) in secrets.iter().enumerate()` once v is a string of
\* the guess's length: out[i] = base3_code_u16(&trits[..l])
RowBody(o, k, g, sb) ==
  [o EXCEPT ![k + 1] = base3_code_u16(Slice(feedback_trits_core(g, sb), Len(g)))]

----------------------------------------------------------------------------
(* The classifier, one loop iteration per step *)

IdleCore ==
  /\ secret = <<>> /\ result = <<>> /\ counts = ZeroCounts
IdleEnc ==
  /\ trits = <<>> /\ code = 0 /\ mul = 1
IdleApi ==
  /\ secrets = <<>> /\ out = <<>>

CoreInit ==
  /\ op = "feedback_trits_core"
  /\ guess \in CoreWords
  /\ secret \in {w \in CoreWords : Len(w) = Len(guess)}
  /\ pc = "count" /\ i = 0
  /\ result = ZeroBuf(Len(guess)) /\ counts = ZeroCounts
  /\ ret = NoRet
  /\ IdleEnc /\ IdleApi

CoreCount ==
  /\ pc = "count" /\ i < Len(secret)
  /\ counts' = CountStep(counts, secret[i + 1])
  /\ i' = i + 1
  /\ UNCHANGED <<op, guess, secret, secrets, pc, result, trits, code, mul, out, ret>>

CoreGreens ==
  /\ pc = "greens" /\ i < Len(guess)
  /\ LET st == GreenStep(result, counts, guess, secret, i)
     IN  result' = st.result /\ counts' = st.counts
  /\ i' = i + 1
  /\ UNCHANGED <<op, guess, secret, secrets, pc, trits, code, mul, out, ret>>

CoreYellows ==
  /\ pc = "yellows" /\ i < Len(guess)
  /\ LET st == YellowStep(result, counts, guess, i)
     IN  result' = st.result /\ counts' = st.counts
  /\ i' = i + 1
  /\ UNCHANGED <<op, guess, secret, secrets, pc, trits, code, mul, out, ret>>

\* a loop runs out: the next loop starts, or the buffer is returned
CoreNextLoop ==
  /\ \/ pc = "count" /\ i >= Len(secret) /\ pc' = "greens" /\ ret' = ret
     \/ pc = "greens" /\ i >= Len(guess) /\ pc' = "yellows" /\ ret' = ret
     \/ pc = "yellows" /\ i >= Len(guess) /\ pc' = "done" /\ ret' = Ok(result)
  /\ i' = 0
  /\ UNCHANGED <<op, guess, secret, secrets, result, counts, trits, code, mul, out>>

CoreNext == CoreCount \/ CoreGreens \/ CoreYellows \/ CoreNextLoop

SpecCore == CoreInit /\ [][CoreNext]_vars

----------------------------------------------------------------------------
(* The encoder, one loop iteration per step, on every slice of at most     *)
(* MaxL feedback values (0, 1 or 2).                                       *)

EncInit ==
  /\ op = "base3_code_u16"
  /\ guess = <<>>
  /\ trits \in SeqsUpTo(0..2, MaxL)
  /\ pc = "loop" /\ i = 0
  /\ code = 0 /\ mul = 1
  /\ ret = NoRet
  /\ IdleCore /\ IdleApi

EncStep ==
  /\ pc = "loop" /\ i < Len(trits)
  /\ LET st == Base3Step(code, mul, trits[i + 1])
     IN  code' = st.code /\ mul' = st.mul
  /\ i' = i + 1
  /\ UNCHANGED <<op, guess, secret, secrets, pc, result, counts, trits, out, ret>>

EncReturn ==
  /\ pc = "loop" /\ i >= Len(trits)
  /\ ret' = Ok(AsU16(code))
  /\ pc' = "done"
  /\ UNCHANGED <<op, guess, secret, secrets, i, result, counts, trits, code, mul, out>>

EncNext == EncStep \/ EncReturn

SpecEnc == EncInit /\ [][EncNext]_vars

----------------------------------------------------------------------------
(* The exported entry points *)

ApiInit ==
  /\ guess \in ApiWords
  /\ \/ op = "feedback_code" /\ secret \in ApiWords /\ secrets = <<>>
     \/ op = "pattern_row_u16" /\ secret = <<>>
        /\ secrets \in SeqsUpTo(ApiValues, MaxSecrets)
  /\ pc = "call" /\ i = 0
  /\ out = <<>>
  /\ ret = NoRet
  /\ result = <<>> /\ counts = ZeroCounts
  /\ IdleEnc

FeedbackCodeCall ==
  /\ op = "feedback_code" /\ pc = "call"
  /\ ret' = feedback_code(guess, secret)
  /\ pc' = "done"
  /\ UNCHANGED <<op, guess, secret, secrets, i, result, counts, trits, code, mul, out>>

\* pattern_row_u16 up to the loop: the two assertions on l, then out.resize(n, 0)
RowEnter ==
  /\ op = "pattern_row_u16" /\ pc = "call"
  /\ IF RowPrecheck(guess) # "ok"
     THEN ret' = Panic(RowPrecheck(guess)) /\ pc' = "done" /\ out' = out
     ELSE ret' = ret /\ pc' = "loop" /\ out' = [k \in 1..Len(secrets) |-> 0]
  /\ UNCHANGED <<op, guess, secret, secrets, i, result, counts, trits, code, mul>>

\* one iteration of the loop over secrets
RowIter ==
  /\ op = "pattern_row_u16" /\ pc = "loop" /\ i < Len(secrets)
  /\ LET v == secrets[i + 1]
     IN  IF RowCheck(guess, v) # "ok"
         THEN ret' = Panic(RowCheck(guess, v)) /\ pc' = "done"
              /\ UNCHANGED <<out, i>>
         ELSE out' = RowBody(out, i, guess, v) /\ i' = i + 1
              /\ UNCHANGED <<ret, pc>>
  /\ UNCHANGED <<op, guess, secret, secrets, result, counts, trits, code, mul>>

\* the loop ran out: arr.copy_from(src); arr
RowReturn ==
  /\ op = "pattern_row_u16" /\ pc = "loop" /\ i >= Len(secrets)
  /\ ret' = Ok(out)
  /\ pc' = "done"
  /\ UNCHANGED <<op, guess, secret, secrets, i, result, counts, trits, code, mul, out>>

ApiNext == FeedbackCodeCall \/ RowEnter \/ RowIter \/ RowReturn

SpecApi == ApiInit /\ [][ApiNext]_vars

----------------------------------------------------------------------------
(* Properties of the classifier (SpecCore) *)

IsLetter(c) == c >= 97 /\ c <= 122
Positions == 1..Len(guess)
GuessBytes == {guess[k] : k \in Positions}
\* occurrences of byte c in word w
Occ(c, w) == Cardinality({k \in 1..Len(w) : w[k] = c})
\* positions of the guess holding c whose feedback is v
Marked(c, v) == {k \in Positions : guess[k] = c /\ result[k] = v}
\* positions where guess and secret both hold c
Both(c) == {k \in Positions : guess[k] = c /\ secret[k] = c}
\* positions where the guess holds c and the secret another byte
Misplaced(c) == {k \in Positions : guess[k] = c /\ secret[k] # c}
Min(a, b) == IF a <= b THEN a ELSE b

\* the loops stepped one iteration at a time return what feedback_trits_core,
\* the same loops run to their end, returns
CoreStepsAgree ==
  pc = "done" => (ret = Ok(result) /\ result = feedback_trits_core(guess, secret))

\* C1: in the returned feedback, for every byte c of the guess, the positions
\* holding c that are marked Present or Exact are at most the occurrences of c
\* in the secret, and the Present marks of c are at most the occurrences of c
\* left after the exact matches of c are removed.
CountConservation ==
  pc = "done" =>
    \A c \in GuessBytes :
      /\ Cardinality(Marked(c, 1)) + Cardinality(Marked(c, 2)) <= Occ(c, secret)
      /\ Cardinality(Marked(c, 1)) <= Occ(c, secret) - Cardinality(Both(c))

\* a letter the guess holds more often than the secret got a Present mark at
\* one position and was refused one at another
CountConservationWitness ==
  /\ pc = "done"
  /\ \E c \in GuessBytes :
       /\ IsLetter(c)
       /\ Occ(c, guess) > Occ(c, secret)
       /\ Marked(c, 1) # {}
       /\ Marked(c, 0) # {}

LeftmostTieBreak ==
  pc = "done" =>
    /\ \A c \in GuessBytes :
         IsLetter(c) =>
           LET r == Occ(c, secret) - Cardinality(Both(c))
               P == Misplaced(c)
               m == Min(r, Cardinality(P))
           IN  \A k \in P :
                 result[k] = IF Cardinality({j \in P : j < k}) < m THEN 1 ELSE 0
    /\ (guess = aabb /\ secret = abab) => Slice(result, 4) = <<2, 1, 1, 2>>

\* a letter with fewer unconsumed occurrences than misplaced guess positions:
\* the tie is decided
LeftmostTieBreakWitness ==
  /\ pc = "done"
  /\ \E c \in GuessBytes :
       /\ IsLetter(c)
       /\ Occ(c, secret) - Cardinality(Both(c)) > 0
       /\ Cardinality(Misplaced(c)) > Occ(c, secret) - Cardinality(Both(c))

\* C10: after the counting loop, in every state of the Exact pass and of the
\* Present/Absent pass and at the return, every entry of the count table is
\* >= 0 and equals the letter's occurrences in the secret minus its Exact
\* marks so far minus its Present marks so far.
CountsAccounted ==
  pc \in {"greens", "yellows", "done"} =>
    \A idx \in 0..(NumLetters - 1) :
      /\ counts[idx] >= 0
      /\ counts[idx] = Occ(idx + ByteA, secret)
                         - Cardinality(Marked(idx + ByteA, 2))
                         - Cardinality(Marked(idx + ByteA, 1))

\* in the middle of the Present/Absent pass, a letter's count was used up by
\* an Exact mark and a Present mark
CountsAccountedWitness ==
  /\ pc = "yellows" /\ i > 0 /\ i < Len(guess)
  /\ \E idx \in 0..(NumLetters - 1) :
       /\ counts[idx] = 0
       /\ Marked(idx + ByteA, 2) # {}
       /\ Marked(idx + ByteA, 1) # {}

\* a step of one of the three loops that handles a byte outside 'a'..'z'
\* leaves the count table as it is
NonLetterLeavesCounts ==
  /\ (pc = "count" /\ i < Len(secret) /\ ~IsLetter(secret[i + 1])) => counts' = counts
  /\ (pc \in {"greens", "yellows"} /\ i < Len(guess) /\ ~IsLetter(guess[i + 1]))
       => counts' = counts

NonLetterAlwaysAbsent ==
  pc = "done" => \A k \in Positions : ~IsLetter(guess[k]) => result[k] = 0

NonLetterExactOnlyIfSame ==
  pc = "done" =>
    \A k \in Positions :
      ~IsLetter(guess[k]) =>
        /\ result[k] # 1
        /\ result[k] = 2 <=> secret[k] = guess[k]

\* C6 as stated: a guess byte outside 'a'..'z' is always marked Absent, also
\* when the secret holds the same byte there, and changes no count.
NonLetterOriginal == []NonLetterAlwaysAbsent /\ [][NonLetterLeavesCounts]_vars

\* C6 amended: a guess byte outside 'a'..'z' is never marked Present; it is
\* marked Exact when the secret holds the same byte at that position and
\* Absent otherwise; a byte outside 'a'..'z', of the guess or of the secret,
\* changes no entry of the count table.
NonLetterNeverPresent == []NonLetterExactOnlyIfSame /\ [][NonLetterLeavesCounts]_vars

\* the guess holds a byte outside 'a'..'z' twice, once where the secret holds
\* it too (Exact) and once where the secret holds it elsewhere (Absent)
NonLetterWitness ==
  /\ pc = "done"
  /\ \E k, j \in Positions :
       /\ ~IsLetter(guess[k]) /\ guess[j] = guess[k]
       /\ secret[k] = guess[k] /\ result[k] = 2
       /\ secret[j] # guess[j] /\ result[j] = 0
       /\ Occ(guess[k], secret) > 1

----------------------------------------------------------------------------
(* Properties of the encoder (SpecEnc) *)

RECURSIVE Pow3(_)
Pow3(n) == IF n = 0 THEN 1 ELSE 3 * Pow3(n - 1)

\* the sum of ts[k] * 3^(k-1)
RECURSIVE Sum3(_)
Sum3(ts) == IF ts = <<>> THEN 0 ELSE Head(ts) + 3 * Sum3(Tail(ts))

\* l times (c mod 3, then c div 3), the first digit at position 0
RECURSIVE Decode(_, _)
Decode(c, l) == IF l = 0 THEN <<>> ELSE <<c % 3>> \o Decode(c \div 3, l - 1)

EncStepsAgree ==
  pc = "done" => ret = Ok(base3_code_u16(trits))

\* C5: decoding the returned code over the slice's length gives the slice
\* back, position 0 as the least-significant trit; a slice that differs from
\* it at one position has another code.
RoundTrip ==
  pc = "done" =>
    /\ Decode(ret.value, Len(trits)) = trits
    /\ \A k \in 1..Len(trits) : \A t \in (0..2) \ {trits[k]} :
         base3_code_u16([trits EXCEPT ![k] = t]) # ret.value

\* a slice of the full length whose reversal is another slice
RoundTripWitness ==
  /\ pc = "done" /\ Len(trits) = MaxL
  /\ trits[1] = 1 /\ trits[2] = 0 /\ trits[MaxL] = 2

\* C8: at every step of the loop the accumulator is at most 3^10 - 1 = 59048
\* and the multiplier at most 3^10; the cast to u16 cuts nothing off and the
\* returned code is the sum of trits[i] * 3^i.
Fits16 ==
  /\ code <= Pow3(MaxL) - 1
  /\ code <= 59048 /\ code < U16
  /\ mul <= Pow3(MaxL)
  /\ pc = "done" => (ret.value = code /\ ret.value = Sum3(trits))

\* the largest code: ten Exact marks
Fits16Witness ==
  pc = "done" /\ Len(trits) = MaxL /\ ret.value = 59048 /\ mul = 59049

----------------------------------------------------------------------------
(* Properties of the entry points (SpecApi) *)

IsStr(v) == v # NotAString
SecretIdx == 1..Len(secrets)
Single(k) == feedback_code(guess, secrets[k])

\* C3: feedback_code never returns a value when the lengths differ or the
\* guess is longer than 10; pattern_row_u16 never returns a value when the
\* guess is longer than 10 or some secret, at any index, has another length
\* than the guess; such a call ends in a panic, whatever was written to out.
LengthViolationRejected ==
  LET badSingle == /\ op = "feedback_code"
                   /\ (Len(guess) # Len(secret) \/ Len(guess) > 10)
      badRow == /\ op = "pattern_row_u16"
                /\ \/ Len(guess) > 10
                   \/ \E k \in SecretIdx :
                        IsStr(secrets[k]) /\ Len(secrets[k]) # Len(guess)
  IN  (badSingle \/ badRow) =>
        /\ ret.status # "ok"
        /\ pc = "done" => ret.status = "panic"

\* the third secret has the wrong length: two codes were written to out, and
\* the call panics
LengthViolationWitness ==
  /\ op = "pattern_row_u16" /\ pc = "done"
  /\ ret = Panic("secret length mismatch")
  /\ i = 2 /\ Len(out) = 3 /\ out[1] # 0 /\ out[2] # out[1]

\* C4: for a guess of length 1..10 and secrets all of that length,
\* pattern_row_u16 returns Len(secrets) codes, the one at each index being
\* feedback_code of the guess and the secret at that index; during the loop
\* the codes written so far are those already.
BatchSingleEquivalence ==
  (/\ op = "pattern_row_u16"
   /\ Len(guess) >= 1 /\ Len(guess) <= 10
   /\ \A k \in SecretIdx : IsStr(secrets[k]) /\ Len(secrets[k]) = Len(guess)) =>
    /\ ret.status # "panic"
    /\ pc = "loop" =>
         /\ Len(out) = Len(secrets)
         /\ \A k \in 1..i : Single(k).status = "ok" /\ out[k] = Single(k).value
    /\ pc = "done" =>
         /\ ret.status = "ok"
         /\ Len(ret.value) = Len(secrets)
         /\ \A k \in SecretIdx : Single(k).status = "ok" /\ ret.value[k] = Single(k).value

\* a list where the same secret sits before and after another one
BatchSingleWitness ==
  /\ op = "pattern_row_u16" /\ pc = "done" /\ ret.status = "ok"
  /\ Len(guess) = 10 /\ Len(secrets) = 3
  /\ secrets[1] = secrets[3] /\ secrets[1] # secrets[2]
  /\ ret.value[1] = ret.value[3] /\ ret.value[1] # ret.value[2]

\* C9: pattern_row_u16 with an empty guess panics for every list of secrets;
\* feedback_code with an empty guess and an empty secret returns 0;
\* pattern_row_u16 with a guess of length 1..10 and no secrets returns an
\* empty result.
EmptyGuess ==
  /\ (op = "pattern_row_u16" /\ guess = <<>>) =>
       /\ ret.status # "ok"
       /\ pc = "done" => (ret.status = "panic" /\ ret.msg = "empty guess")
  /\ (op = "feedback_code" /\ guess = <<>> /\ secret = <<>> /\ pc = "done") =>
       (ret.status = "ok" /\ ret.value = 0)
  /\ (op = "pattern_row_u16" /\ Len(guess) >= 1 /\ Len(guess) <= 10
        /\ secrets = <<>> /\ pc = "done") =>
       (ret.status = "ok" /\ ret.value = <<>>)

\* an empty guess against a list of empty strings
EmptyGuessWitness ==
  /\ op = "pattern_row_u16" /\ pc = "done"
  /\ guess = <<>> /\ secrets = << <<>>, <<>> >>
  /\ ret.status = "panic"

====
